---- MODULE Spec2Model ----
(***************************************************************************)
(* A model of xdg-mime-rs: the shared MIME-info database (SharedMimeInfo), *)
(* its loader (load_directory / reload) and its queries.                  *)
(*                                                                         *)
(* The database is the seven fields of SharedMimeInfo.  The filesystem it  *)
(* is loaded from is the variable fs: one record per MIME directory of the *)
(* search path, holding the already tokenised lines of each table file.    *)
(* A query is one atomic step that records what was asked (op, args) and  *)
(* what was returned (ret).                                                *)
(***************************************************************************)
EXTENDS Integers, Sequences, FiniteSets, TLC

VARIABLES
    fs,             \* the MIME directories of the search path, in load order
    clock,          \* the filesystem's clock (SystemTime)
    aliases,        \* SharedMimeInfo.aliases : AliasesList (a Vec<Alias>)
    parents,        \* SharedMimeInfo.parents : ParentsMap (HashMap<Mime, Vec<Mime>>)
    icons,          \* SharedMimeInfo.icons
    generic_icons,  \* SharedMimeInfo.generic_icons
    globs,          \* SharedMimeInfo.globs : GlobMap (a HashSet<Glob>)
    magic,          \* SharedMimeInfo.magic : Vec<MagicEntry>
    mime_dirs,      \* SharedMimeInfo.mime_dirs : Vec<MimeDirectory>
    op,             \* the public operation that returned last ("none": no result pending)
    args,           \* its arguments
    ret             \* its return value, wrapped in a tuple

vars == <<fs, clock, aliases, parents, icons, generic_icons, globs, magic,
          mime_dirs, op, args, ret>>

db_vars == <<aliases, parents, icons, generic_icons, globs, magic, mime_dirs>>

-----------------------------------------------------------------------------
(* Bounds of the model.                                                    *)

\* MIME directories on the search path.
MaxDirs == 2
\* Alias lines over all the aliases files of the search path.
MaxAliases == 1
\* Subclass lines over all the subclasses files of the search path.
MaxSubclasses == 2
\* Alias lines over all the aliases files of the search path, in SpecAlias.
MaxAliasLines == 2
\* Glob lines over all the globs2 files of the search path, in SpecGlob.
MaxGlobLines == 2
\* Rules of a magic entry, in SpecEntry.
MaxRules == 4
\* Bytes of the data handed to the content sniffing.
MaxDataLen == 2
\* Entries of one magic file, in SpecMagic.
MaxFileEntries == 1
\* Modifications of the MIME directories after the program has started.
MaxClock == 1
\* Records of the subclasses file, in SpecGuess.
MaxGuessSubclasses == 1
\* Bytes of the value of a magic rule, and the largest start offset and range
\* length, in the specification of one rule.
MaxValueLen == 2
MaxOffset == 2
MaxRange == 2
\* Bytes of data matched against one rule.
MaxRuleData == 4
\* Calls of data() on one builder, and bytes handed to one call.
MaxDataCalls == 2
MaxChunkLen == 4
\* Bytes of the longest data handed to looks_like_text.
MaxTextLen == 130
\* Nested calls of mime_type_subclass the thread's stack holds before the
\* process is aborted.  Larger than any chain of distinct MIME types.
StackLimit == 6

-----------------------------------------------------------------------------
(* Option<T>, sequences.                                                   *)

None == <<>>
Some(v) == <<v>>
is_some(o) == o # None
unwrap(o) == o[1]
unwrap_or(o, d) == IF o = None THEN d ELSE o[1]

SeqUpTo(S, n) == UNION {[1..k -> S] : k \in 0..n}
Range(s) == {s[i] : i \in DOMAIN s}
Contains(s, x) == \E i \in DOMAIN s : s[i] = x
Min(S) == CHOOSE x \in S : \A y \in S : x <= y

\* The ways to cut a file of L lines into n consecutive files: c[d] is the
\* number of lines in the first d files.
Cuts(n, L) ==
    {c \in [0..n -> 0..L] : c[0] = 0 /\ c[n] = L /\ \A d \in 1..n : c[d - 1] <= c[d]}
Piece(lines, c, d) == SubSeq(lines, c[d - 1] + 1, c[d])

-----------------------------------------------------------------------------
(* mime::Mime: a parsed type/subtype pair.                                 *)

Mime(t, s) == [type |-> t, subtype |-> s]
STAR == "*"
TEXT == "text"
TEXT_PLAIN == Mime("text", "plain")
APPLICATION_OCTET_STREAM == Mime("application", "octet-stream")
TEXT_RUST == Mime("text", "rust")
TEXT_STAR == Mime("text", "*")
INODE_DIRECTORY == Mime("inode", "directory")

\* The MIME types the alias and subclass tables and the queries range over.
Mimes == {TEXT_PLAIN, TEXT_RUST, TEXT_STAR, INODE_DIRECTORY, APPLICATION_OCTET_STREAM}

-----------------------------------------------------------------------------
(* alias.rs                                                                *)

Alias(a, m) == [alias |-> a, mime_type |-> m]

\* AliasesList::add_aliases: Vec::extend.
add_aliases(list, new) == list \o new

\* The scan of AliasesList::unalias_mime_type from position i on.
RECURSIVE find_alias(_, _, _)
find_alias(list, mime_type, i) ==
    IF i > Len(list) THEN None
    ELSE IF list[i].alias = mime_type THEN Some(list[i].mime_type)
    ELSE find_alias(list, mime_type, i + 1)

\* AliasesList::find_alias scanning from the back: the last record wins.
RECURSIVE find_alias_last(_, _, _)
find_alias_last(list, mime_type, i) ==
    IF i > Len(list) THEN None
    ELSE LET rest == find_alias_last(list, mime_type, i + 1)
         IN IF rest # None THEN rest
            ELSE IF list[i].alias = mime_type THEN Some(list[i].mime_type)
            ELSE None

unalias_last(list, mime_type) == find_alias_last(list, mime_type, 1)

\* AliasesList::unalias_mime_type: iter().find(|a| a.alias == *mime_type).
unalias_mime_type(list, mime_type) == find_alias(list, mime_type, 1)

-----------------------------------------------------------------------------
(* parent.rs                                                               *)

Subclass(m, p) == [mime_type |-> m, parent_type |-> p]

\* ParentsMap::new: an empty HashMap.
EmptyMap == [k \in {} |-> <<>>]

\* ParentsMap::lookup: HashMap::get.
lookup(map, mime_type) ==
    IF mime_type \in DOMAIN map THEN Some(map[mime_type]) ELSE None

\* ParentsMap::add_subclass: entry().or_insert_with(Vec::new), push if absent.
add_subclass(map, subclass) ==
    LET v == IF subclass.mime_type \in DOMAIN map THEN map[subclass.mime_type] ELSE <<>>
        w == IF Contains(v, subclass.parent_type) THEN v
             ELSE Append(v, subclass.parent_type)
    IN [k \in DOMAIN map \cup {subclass.mime_type} |->
            IF k = subclass.mime_type THEN w ELSE map[k]]

\* ParentsMap::add_subclasses: add_subclass for each record, in order.
RECURSIVE add_subclasses(_, _)
add_subclasses(map, subclasses) ==
    IF subclasses = <<>> THEN map
    ELSE add_subclasses(add_subclass(map, Head(subclasses)), Tail(subclasses))

-----------------------------------------------------------------------------
(* lib.rs: mime_type_equal, mime_type_subclass                             *)

\* mime_type_equal with only the first argument unaliased.
mime_type_equal_left(list, mime_a, mime_b) ==
    unwrap_or(unalias_mime_type(list, mime_a), mime_a) = mime_b

\* SharedMimeInfo::mime_type_equal.
mime_type_equal(list, mime_a, mime_b) ==
    LET unaliased_a == unwrap_or(unalias_mime_type(list, mime_a), mime_a)
        unaliased_b == unwrap_or(unalias_mime_type(list, mime_b), mime_b)
    IN unaliased_a = unaliased_b

\* The result of a call of mime_type_subclass: the boolean it returns, or no
\* return at all when the recursion exhausts the stack (the process aborts).
Returned(b) == <<b>>
StackOverflow == <<>>

\* "Handle super-types" without the comparison of the types.
super_type_rule_any(unaliased_mime, unaliased_base) ==
    unaliased_base.subtype = STAR

\* "Handle super-types": base is T/* and the type is T.
super_type_rule(unaliased_mime, unaliased_base) ==
    unaliased_base.subtype = STAR /\ unaliased_base.type = unaliased_mime.type

\* The text/plain rule with its two arguments exchanged.
text_plain_rule_swapped(unaliased_mime, unaliased_base) ==
    unaliased_mime = TEXT_PLAIN /\ unaliased_base.type = TEXT

\* "All text/* types are subclasses of text/plain."
text_plain_rule(unaliased_mime, unaliased_base) ==
    unaliased_base = TEXT_PLAIN /\ unaliased_mime.type = TEXT

\* The application/octet-stream rule without the inode exception.
octet_stream_rule_any(unaliased_mime, unaliased_base) ==
    unaliased_base = APPLICATION_OCTET_STREAM

\* "All streamable types (ie, everything except the inode/* types) are
\* subclasses of application/octet-stream."
octet_stream_rule(unaliased_mime, unaliased_base) ==
    unaliased_base = APPLICATION_OCTET_STREAM /\ unaliased_mime.type # "inode"

RECURSIVE subclass_call(_, _, _, _, _)
RECURSIVE subclass_parents(_, _, _, _, _, _)

\* The loop "for parent in parents" of mime_type_subclass, from position i on,
\* in a call at stack depth `depth`.
subclass_parents(list, map, ps, unaliased_base, i, depth) ==
    IF i > Len(ps) THEN Returned(FALSE)
    ELSE LET r == subclass_call(list, map, ps[i], unaliased_base, depth + 1)
         IN IF r = StackOverflow THEN StackOverflow
            ELSE IF r = Returned(TRUE) THEN Returned(TRUE)
            ELSE subclass_parents(list, map, ps, unaliased_base, i + 1, depth)

\* One call of SharedMimeInfo::mime_type_subclass at stack depth `depth`.
subclass_call(list, map, mime_type, base, depth) ==
    IF depth > StackLimit THEN StackOverflow
    ELSE
    LET unaliased_mime == unwrap_or(unalias_mime_type(list, mime_type), mime_type)
        unaliased_base == unwrap_or(unalias_mime_type(list, base), base)
    IN IF unaliased_mime = unaliased_base THEN Returned(TRUE)
       ELSE IF super_type_rule(unaliased_mime, unaliased_base) THEN Returned(TRUE)
       ELSE IF text_plain_rule(unaliased_mime, unaliased_base) THEN Returned(TRUE)
       ELSE IF octet_stream_rule(unaliased_mime, unaliased_base) THEN Returned(TRUE)
       ELSE IF is_some(lookup(map, unaliased_mime))
            THEN subclass_parents(list, map, unwrap(lookup(map, unaliased_mime)),
                                  unaliased_base, 1, depth)
       ELSE Returned(FALSE)

\* SharedMimeInfo::mime_type_subclass, called by the user (depth 1).
mime_type_subclass(list, map, mime_type, base) ==
    subclass_call(list, map, mime_type, base, 1)

-----------------------------------------------------------------------------
(* Strings: sequences of characters.                                       *)

\* char::to_lowercase on the characters the model uses.
lower_char(c) == IF c = "A" THEN "a" ELSE IF c = "C" THEN "c" ELSE c

\* str::to_lowercase.
to_lowercase(s) == [i \in DOMAIN s |-> lower_char(s[i])]

\* str::ends_with.
ends_with(s, suffix) ==
    /\ Len(suffix) <= Len(s)
    /\ \A i \in 1..Len(suffix) : s[Len(s) - Len(suffix) + i] = suffix[i]

\* UniCase::new(a) == UniCase::new(b): equality up to letter case.
unicase_eq(a, b) == to_lowercase(a) = to_lowercase(b)

-----------------------------------------------------------------------------
(* glob.rs                                                                 *)

Literal(s) == [kind |-> "Literal", s |-> s]
Simple(s) == [kind |-> "Simple", s |-> s]
Full(p) == [kind |-> "Full", s |-> p]

\* The characters that make a pattern a full glob.
is_meta(ch) == ch \in {"\\", "[", "*", "?"}

\* determine_type: the first meta-character that is not a leading '*' makes a
\* Full glob; a leading '*' alone makes a Simple glob; anything else a Literal.
determine_type(glob) ==
    IF \E idx \in DOMAIN glob : ~(idx = 1 /\ glob[idx] = "*") /\ is_meta(glob[idx])
    THEN Full(glob)
    ELSE IF Len(glob) >= 1 /\ glob[1] = "*" THEN Simple(SubSeq(glob, 2, Len(glob)))
    ELSE Literal(glob)

\* glob::Pattern::new(..) is an Err: a '[' that no ']' closes, with at least
\* one character between them, is not a valid range pattern.
pattern_new_fails(glob) ==
    \E i \in DOMAIN glob :
        /\ glob[i] = "["
        /\ ~\E j \in (i + 2)..Len(glob) : glob[j] = "]"

\* determine_type panics: Pattern::new(&glob).unwrap() on an Err.
determine_type_panics(glob) ==
    /\ \E idx \in DOMAIN glob : ~(idx = 1 /\ glob[idx] = "*") /\ is_meta(glob[idx])
    /\ pattern_new_fails(glob)

\* Glob::new.
Glob(mime_type, glob, weight, cs) ==
    [glob |-> determine_type(glob), weight |-> weight, case_sensitive |-> cs,
     mime_type |-> mime_type]

\* impl PartialEq for Glob: the pattern and the MIME type, nothing else.
glob_eq(a, b) == a.glob = b.glob /\ a.mime_type = b.mime_type

\* glob::Pattern::matches with the default MatchOptions, for patterns made of
\* literal characters, '?' and '*'.
RECURSIVE pattern_matches(_, _)
pattern_matches(p, s) ==
    IF p = <<>> THEN s = <<>>
    ELSE IF Head(p) = "*"
         THEN \E k \in 0..Len(s) : pattern_matches(Tail(p), SubSeq(s, k + 1, Len(s)))
    ELSE IF s = <<>> THEN FALSE
    ELSE IF Head(p) = "?" THEN pattern_matches(Tail(p), Tail(s))
    ELSE Head(p) = Head(s) /\ pattern_matches(Tail(p), Tail(s))

\* Glob::compare.
compare(glob, file_name) ==
    CASE glob.glob.kind = "Literal" -> unicase_eq(glob.glob.s, file_name)
      [] glob.glob.kind = "Simple" ->
            \/ ends_with(file_name, glob.glob.s)
            \/ (~glob.case_sensitive /\ ends_with(to_lowercase(file_name), glob.glob.s))
      [] glob.glob.kind = "Full" -> pattern_matches(glob.glob.s, file_name)

\* add_glob that replaces the element already present.
add_glob_replace(set, glob) ==
    {g \in set : ~glob_eq(g, glob)} \cup {glob}

\* GlobMap::add_glob: HashSet::insert keeps the element already present.
add_glob(set, glob) ==
    IF \E g \in set : glob_eq(g, glob) THEN set ELSE set \cup {glob}

\* GlobMap::add_globs: HashSet::extend, an insert per glob, in order.
RECURSIVE add_globs(_, _)
add_globs(set, new) ==
    IF new = <<>> THEN set ELSE add_globs(add_glob(set, Head(new)), Tail(new))

\* The matching globs ordered by weight, the highest first.
sorted_by_weight_descending(matching) ==
    {o \in [1..Cardinality(matching) -> matching] :
        /\ \A i, j \in DOMAIN o : i # j => o[i] # o[j]
        /\ \A i, j \in DOMAIN o : i < j => o[i].weight >= o[j].weight}

\* The orders in which `for glob in &self.globs` followed by the stable
\* sort_by(weight) can leave the matching globs: the HashSet iterates in an
\* order the program does not control.
sorted_by_weight(matching) ==
    {o \in [1..Cardinality(matching) -> matching] :
        /\ \A i, j \in DOMAIN o : i # j => o[i] # o[j]
        /\ \A i, j \in DOMAIN o : i < j => o[i].weight <= o[j].weight}

\* GlobMap::lookup_mime_type_for_file_name: the values it can return.
lookup_mime_type_for_file_name(set, file_name) ==
    LET matching_globs == {g \in set : compare(g, file_name)}
    IN IF matching_globs = {} THEN {None}
       ELSE {Some([i \in DOMAIN o |-> o[i].mime_type]) : o \in sorted_by_weight(matching_globs)}

\* get_mime_types_from_file_name without the fallback.
get_mime_types_no_fallback(set, file_name) ==
    {unwrap_or(v, <<>>) : v \in lookup_mime_type_for_file_name(set, file_name)}

\* SharedMimeInfo::get_mime_types_from_file_name: the values it can return.
get_mime_types_from_file_name(set, file_name) ==
    {unwrap_or(v, <<APPLICATION_OCTET_STREAM>>) :
        v \in lookup_mime_type_for_file_name(set, file_name)}

-----------------------------------------------------------------------------
(* magic.rs                                                                *)

\* x & y on u8.
RECURSIVE bit_and(_, _)
bit_and(x, y) ==
    IF x = 0 \/ y = 0 THEN 0
    ELSE (x % 2) * (y % 2) + 2 * bit_and(x \div 2, y \div 2)

MagicRule(indent, start_offset, value, mask, word_size, range_length) ==
    [indent |-> indent, start_offset |-> start_offset, value |-> value,
     mask |-> mask, word_size |-> word_size, range_length |-> range_length]

\* masked_slices_are_equal: a and b agree on the bits set in mask.
masked_slices_are_equal(a, b, mask) ==
    [i \in DOMAIN a |-> bit_and(a[i], mask[i])] = [i \in DOMAIN b |-> bit_and(b[i], mask[i])]

\* MagicRule::matches_data, for a value of at least one byte:
\* data.windows(value_len).skip(start).take(range_length).any(...).
matches_data(rule, data) ==
    LET start == rule.start_offset
        range_length == rule.range_length
        value_len == Len(rule.value)
        \* the windows of data, numbered from 0: window w is data[w .. w + value_len)
        windows == 0..(Len(data) - value_len)
        data_windows == {w \in windows : start <= w /\ w < start + range_length}
        window(w) == SubSeq(data, w + 1, w + value_len)
    IN IF is_some(rule.mask)
       THEN \E w \in data_windows :
                masked_slices_are_equal(window(w), rule.value, unwrap(rule.mask))
       ELSE \E w \in data_windows : window(w) = rule.value

\* MagicRule::matches_data panics: the assertion on the length of the mask
\* fails, or data.windows(0) is called for a value of no byte.
matches_data_panics(rule, data) ==
    \/ is_some(rule.mask) /\ Len(unwrap(rule.mask)) # Len(rule.value)
    \/ Len(rule.value) = 0

MagicEntry(mime_type, priority, rules) ==
    [mime_type |-> mime_type, priority |-> priority, rules |-> rules]

\* MagicEntry::matches panics: the scan reaches, at the current level, a rule
\* on which matches_data panics.
RECURSIVE entry_scan_panics(_, _, _, _)
entry_scan_panics(entry, data, i, current_level) ==
    IF i > Len(entry.rules) THEN FALSE
    ELSE IF entry.rules[i].indent # current_level
         THEN entry_scan_panics(entry, data, i + 1, current_level)
    ELSE IF matches_data_panics(entry.rules[i], data) THEN TRUE
    ELSE IF ~matches_data(entry.rules[i], data)
         THEN entry_scan_panics(entry, data, i + 1, current_level)
    ELSE IF i = Len(entry.rules) THEN FALSE
    ELSE IF entry.rules[i + 1].indent <= current_level THEN FALSE
    ELSE entry_scan_panics(entry, data, i + 1, current_level + 1)

matches_panics(entry, data) == entry_scan_panics(entry, data, 1, 0)

\* The loop of MagicEntry::matches from rule i on, with current_level.
RECURSIVE entry_scan(_, _, _, _)
entry_scan(entry, data, i, current_level) ==
    IF i > Len(entry.rules) THEN None
    ELSE IF entry.rules[i].indent = current_level /\ matches_data(entry.rules[i], data)
         THEN IF i = Len(entry.rules)
              THEN Some(<<entry.mime_type, entry.priority>>)
              ELSE IF entry.rules[i + 1].indent <= current_level
                   THEN Some(<<entry.mime_type, entry.priority>>)
                   ELSE entry_scan(entry, data, i + 1, current_level + 1)
    ELSE entry_scan(entry, data, i + 1, current_level)

\* MagicEntry::matches.
matches(entry, data) == entry_scan(entry, data, 1, 0)

\* lookup_data that keeps the last entry that matches.
RECURSIVE lookup_data_last(_, _)
lookup_data_last(entries, data) ==
    IF entries = <<>> THEN None
    ELSE LET rest == lookup_data_last(Tail(entries), data)
         IN IF is_some(rest) THEN rest ELSE matches(Head(entries), data)

\* lookup_data: entries.iter().find_map(|e| e.matches(data)).
RECURSIVE lookup_data(_, _)
lookup_data(entries, data) ==
    IF entries = <<>> THEN None
    ELSE LET m == matches(Head(entries), data)
         IN IF is_some(m) THEN m ELSE lookup_data(Tail(entries), data)

\* lookup_data panics: matches panics on an entry that no matching entry
\* precedes.
RECURSIVE lookup_data_panics(_, _)
lookup_data_panics(entries, data) ==
    IF entries = <<>> THEN FALSE
    ELSE IF matches_panics(Head(entries), data) THEN TRUE
    ELSE IF is_some(matches(Head(entries), data)) THEN FALSE
    ELSE lookup_data_panics(Tail(entries), data)

APPLICATION_X_ZEROSIZE == Mime("application", "x-zerosize")

\* SharedMimeInfo::get_mime_type_for_data panics.
get_mime_type_for_data_panics(entries, data) ==
    data # <<>> /\ lookup_data_panics(entries, data)

\* SharedMimeInfo::get_mime_type_for_data.
get_mime_type_for_data(entries, data) ==
    IF data = <<>> THEN Some(<<APPLICATION_X_ZEROSIZE, 100>>)
    ELSE lookup_data(entries, data)

-----------------------------------------------------------------------------
(* The filesystem: one record per MIME directory.                          *)

\* A directory with its six files, each as the list of records its reader
\* returns, and its modification time.
FullDirectory(al, sub, ic, gic, gl, mg, t) ==
    [aliases |-> al, subclasses |-> sub, icons |-> ic, generic_icons |-> gic,
     globs |-> gl, magic |-> mg, mtime |-> t, exists |-> TRUE]

\* A directory holding only the files given; a missing file reads as empty.
Directory(al, sub, gl, mg, t) == FullDirectory(al, sub, <<>>, <<>>, gl, mg, t)

\* A directory that is not there: fs::metadata fails and every file reads as
\* empty.
Missing == [Directory(<<>>, <<>>, <<>>, <<>>, 0) EXCEPT !.exists = FALSE]

\* fs::metadata(..).modified(), or `default` when the directory cannot be
\* stat'ed.
modified(dir, default) == IF dir.exists THEN dir.mtime ELSE default

-----------------------------------------------------------------------------
(* lib.rs: the database                                                    *)

MimeDirectory(p, t) == [path |-> p, mtime |-> t]

\* The fields of self.
Self == [aliases |-> aliases, parents |-> parents, icons |-> icons,
         generic_icons |-> generic_icons, globs |-> globs, magic |-> magic,
         mime_dirs |-> mime_dirs]

\* SharedMimeInfo::create.
create == [aliases |-> <<>>, parents |-> EmptyMap, icons |-> <<>>,
           generic_icons |-> <<>>, globs |-> {}, magic |-> <<>>,
           mime_dirs |-> <<>>]

\* SharedMimeInfo::load_directory: append the tables read from `directory`
\* and record the directory with its modification time, or with the current
\* time when the directory cannot be stat'ed.
load_directory(self, directory, disk) ==
    [aliases |-> add_aliases(self.aliases, disk[directory].aliases),
     icons |-> self.icons \o disk[directory].icons,
     generic_icons |-> self.generic_icons \o disk[directory].generic_icons,
     parents |-> add_subclasses(self.parents, disk[directory].subclasses),
     globs |-> add_globs(self.globs, disk[directory].globs),
     magic |-> self.magic \o disk[directory].magic,
     mime_dirs |-> Append(self.mime_dirs,
                          MimeDirectory(directory, modified(disk[directory], clock)))]

\* A line of an icons file that BufRead::lines cannot decode as UTF-8.
UndecodableLine == [utf8 |-> FALSE]

\* for line in file.lines(): line is an Err.
line_is_err(line) == "utf8" \in DOMAIN line

\* SharedMimeInfo::load_directory panics: read_icons_from_file unwraps a line
\* that is an Err, or Glob::new panics in determine_type on the pattern of a
\* globs line.
load_directory_panics(directory, disk) ==
    \/ \E i \in DOMAIN disk[directory].icons : line_is_err(disk[directory].icons[i])
    \/ \E i \in DOMAIN disk[directory].generic_icons :
            line_is_err(disk[directory].generic_icons[i])
    \/ \E i \in DOMAIN disk[directory].globs :
            /\ disk[directory].globs[i].glob.kind = "Full"
            /\ determine_type_panics(disk[directory].globs[i].glob.s)

\* SharedMimeInfo::reload panics: the database is dropped and load_directory
\* panics on one of the recorded directories.
reload_panics(self, disk) ==
    /\ \E i \in DOMAIN self.mime_dirs :
            self.mime_dirs[i].mtime
                < modified(disk[self.mime_dirs[i].path], self.mime_dirs[i].mtime)
    /\ \E i \in DOMAIN self.mime_dirs : load_directory_panics(self.mime_dirs[i].path, disk)

\* The loop "for dir in &mime_dirs { self.load_directory(base_dir) }" of reload.
RECURSIVE reload_dirs(_, _, _)
reload_dirs(self, dirs, disk) ==
    IF dirs = <<>> THEN self
    ELSE reload_dirs(load_directory(self, Head(dirs).path, disk), Tail(dirs), disk)

\* A reload that drops the database whatever the modification times.
reload_always(self, disk) ==
    [dropped_db |-> TRUE, self |-> reload_dirs(create, self.mime_dirs, disk)]

\* A reload that forgets the recorded directories and keeps the tables.
reload_no_clear(self, disk) ==
    LET dropped_db == \E i \in DOMAIN self.mime_dirs :
                          self.mime_dirs[i].mtime
                              < modified(disk[self.mime_dirs[i].path], self.mime_dirs[i].mtime)
    IN IF dropped_db
       THEN [dropped_db |-> TRUE,
             self |-> reload_dirs([self EXCEPT !.mime_dirs = <<>>], self.mime_dirs, disk)]
       ELSE [dropped_db |-> FALSE, self |-> self]

\* A reload that rebuilds the tables and keeps the modification times it had
\* recorded.
reload_stale_mtime(self, disk) ==
    LET dropped_db == \E i \in DOMAIN self.mime_dirs :
                          self.mime_dirs[i].mtime
                              < modified(disk[self.mime_dirs[i].path], self.mime_dirs[i].mtime)
    IN IF dropped_db
       THEN [dropped_db |-> TRUE,
             self |-> [reload_dirs(create, self.mime_dirs, disk)
                          EXCEPT !.mime_dirs = self.mime_dirs]]
       ELSE [dropped_db |-> FALSE, self |-> self]

\* SharedMimeInfo::reload: whether the database was dropped, and the database
\* afterwards.
reload(self, disk) ==
    LET dropped_db == \E i \in DOMAIN self.mime_dirs :
                          self.mime_dirs[i].mtime
                              < modified(disk[self.mime_dirs[i].path], self.mime_dirs[i].mtime)
    IN IF dropped_db
       THEN [dropped_db |-> TRUE, self |-> reload_dirs(create, self.mime_dirs, disk)]
       ELSE [dropped_db |-> FALSE, self |-> self]

-----------------------------------------------------------------------------
(* lib.rs: GuessBuilder                                                    *)

\* MagicRule::extent.
extent(rule) == Len(rule.value) + rule.start_offset + rule.range_length

\* Iterator::max().unwrap_or(0) over a set of numbers.
max_or_zero(S) == IF S = {} THEN 0 ELSE CHOOSE x \in S : \A y \in S : y <= x

\* MagicEntry::max_extents.
entry_max_extents(entry) == max_or_zero({extent(entry.rules[i]) : i \in DOMAIN entry.rules})

\* max_extents that looks at the first entry only.
max_extents_first(entries) ==
    IF entries = <<>> THEN 0 ELSE entry_max_extents(entries[1])

\* magic::max_extents.
max_extents(entries) == max_or_zero({entry_max_extents(entries[i]) : i \in DOMAIN entries})

INODE_SYMLINK == Mime("inode", "symlink")

\* fs::Metadata: the file type and the length in bytes.
Metadata(file_type, len) == [file_type |-> file_type, len |-> len]

\* What the filesystem holds at a path: the last component of the path, what
\* fs::metadata answers (none when it fails) and the bytes File::open and
\* read give (none when the file cannot be opened or read).
PathFile(file_name, metadata, content) ==
    [file_name |-> file_name, metadata |-> metadata, content |-> content]

\* SharedMimeInfo::guess_mime_type: a builder with nothing set.
guess_mime_type ==
    [file_name |-> None, data |-> <<>>, metadata |-> None, path |-> None]

\* GuessBuilder::file_name.
builder_file_name(builder, name) == [builder EXCEPT !.file_name = Some(name)]

\* GuessBuilder::data that keeps two bytes less than max_extents.
builder_data_short(self, builder, data) ==
    LET max_data_size == max_extents(self.magic)
    IN [builder EXCEPT !.data =
            IF Len(data) > max_data_size
            THEN builder.data \o SubSeq(data, 1, max_data_size - 2)
            ELSE builder.data \o data]

\* GuessBuilder::data: keep at most max_extents bytes of the data.
builder_data(self, builder, data) ==
    LET max_data_size == max_extents(self.magic)
    IN [builder EXCEPT !.data =
            IF Len(data) > max_data_size
            THEN builder.data \o SubSeq(data, 1, max_data_size)
            ELSE builder.data \o data]

\* GuessBuilder::metadata.
builder_metadata(builder, metadata) == [builder EXCEPT !.metadata = Some(metadata)]

\* GuessBuilder::path.
builder_path(builder, path) == [builder EXCEPT !.path = Some(path)]

\* ch.is_ascii_control().
is_ascii_control(ch) == ch <= 31 \/ ch = 127

\* ch.is_ascii_whitespace().
is_ascii_whitespace(ch) == ch \in {9, 10, 12, 13, 32}

\* looks_like_text: no control character other than whitespace in the first
\* 128 bytes.
looks_like_text(data) ==
    ~\E i \in 1..Min({128, Len(data)}) :
        is_ascii_control(data[i]) /\ ~is_ascii_whitespace(data[i])

\* load_data_chunk: exactly chunk_size bytes from the start of the file.
load_data_chunk(path, chunk_size) ==
    IF chunk_size = 0 THEN None
    ELSE IF ~is_some(path.content) THEN None
    ELSE IF Len(unwrap(path.content)) < chunk_size THEN None
    ELSE Some(SubSeq(unwrap(path.content), 1, chunk_size))

\* The first part of guess: with a path set, fill the metadata, the data and
\* the file name that were not set on the builder.
guess_fill(self, builder) ==
    IF ~is_some(builder.path) THEN builder
    ELSE LET path == unwrap(builder.path)
             metadata == IF is_some(builder.metadata) THEN builder.metadata
                         ELSE path.metadata
             max_data_size ==
                 IF is_some(metadata) /\ unwrap(metadata).len < max_extents(self.magic)
                 THEN unwrap(metadata).len
                 ELSE max_extents(self.magic)
             data == IF builder.data = <<>>
                     THEN unwrap_or(load_data_chunk(path, max_data_size), <<>>)
                     ELSE builder.data
             file_name == IF is_some(builder.file_name) THEN builder.file_name
                          ELSE path.file_name
         IN [file_name |-> file_name, data |-> data, metadata |-> metadata,
             path |-> builder.path]

\* Guess { mime, uncertain }.
Guess(mime, uncertain) == [mime |-> mime, uncertain |-> uncertain]

\* name_mime_types.iter().find(|m| self.db.mime_type_subclass(m, &mime)).
RECURSIVE find_subclass(_, _, _, _)
find_subclass(self, name_mime_types, i, mime) ==
    IF i > Len(name_mime_types) THEN Returned(None)
    ELSE LET r == mime_type_subclass(self.aliases, self.parents, name_mime_types[i], mime)
         IN IF r = StackOverflow THEN StackOverflow
            ELSE IF r = Returned(TRUE) THEN Returned(Some(name_mime_types[i]))
            ELSE find_subclass(self, name_mime_types, i + 1, mime)

\* The inode shortcut of guess: directories, symbolic links, empty files.
guess_inode(builder) ==
    IF ~is_some(builder.metadata) THEN None
    ELSE IF unwrap(builder.metadata).file_type = "dir" THEN Some(Guess(INODE_DIRECTORY, TRUE))
    ELSE IF unwrap(builder.metadata).file_type = "symlink" THEN Some(Guess(INODE_SYMLINK, TRUE))
    ELSE IF unwrap(builder.metadata).len = 0 THEN Some(Guess(APPLICATION_X_ZEROSIZE, TRUE))
    ELSE None

\* self.db.get_mime_type_for_data(&self.data).unwrap_or_else(|| (octet-stream, 80)).
guess_sniffed(self, data) ==
    unwrap_or(get_mime_type_for_data(self.magic, data), <<APPLICATION_OCTET_STREAM, 80>>)

\* The text fallback of guess.
guess_text(mime, data) ==
    IF mime = APPLICATION_OCTET_STREAM /\ data # <<>> /\ looks_like_text(data)
    THEN TEXT_PLAIN
    ELSE mime

\* A confident match that takes any sniffed type of priority 80 or more.
guess_confident_any(mime, priority) == priority >= 80

\* The confident match of guess: a sniffed type other than octet-stream with
\* priority 80 or more.
guess_confident(mime, priority) == mime # APPLICATION_OCTET_STREAM /\ priority >= 80

\* A tie breaker that picks the last name candidate, uncertain.
guess_tie_break_last(self, name_mime_types, mime) ==
    Returned(Guess(name_mime_types[Len(name_mime_types)], TRUE))

\* The tie breaker of guess: the first name candidate that is a subclass of
\* the sniffed type, the first name candidate (uncertain) without one.
guess_tie_break(self, name_mime_types, mime) ==
    LET found == IF mime # APPLICATION_OCTET_STREAM
                 THEN find_subclass(self, name_mime_types, 1, mime)
                 ELSE Returned(None)
    IN IF found = StackOverflow THEN StackOverflow
       ELSE IF is_some(found[1]) THEN Returned(Guess(unwrap(found[1]), FALSE))
       ELSE Returned(Guess(name_mime_types[1], TRUE))

\* A guess that never takes the file name alone.
guess_definitive_never(name_mime_types) == FALSE

\* The definitive name match of guess.
guess_definitive(name_mime_types) ==
    Len(name_mime_types) = 1 /\ name_mime_types[1] # APPLICATION_OCTET_STREAM

\* The part of guess after the inode shortcut, for the name candidates given.
guess_decide(self, builder, name_mime_types) ==
    IF guess_definitive(name_mime_types)
    THEN Returned(Guess(name_mime_types[1], FALSE))
    ELSE LET sniffed_mime == guess_sniffed(self, builder.data)
         IN IF name_mime_types = <<>>
            THEN IF builder.data = <<>>
                 THEN Returned(Guess(APPLICATION_OCTET_STREAM, TRUE))
                 ELSE Returned(Guess(sniffed_mime[1],
                                     sniffed_mime[1] = APPLICATION_OCTET_STREAM))
            ELSE LET mime == guess_text(sniffed_mime[1], builder.data)
                     priority == sniffed_mime[2]
                 IN IF guess_confident(mime, priority)
                    THEN Returned(Guess(mime, FALSE))
                    ELSE guess_tie_break(self, name_mime_types, mime)

\* The name candidates guess can get: those of the file name, none without.
guess_names(self, builder) ==
    IF is_some(builder.file_name)
    THEN get_mime_types_from_file_name(self.globs, unwrap(builder.file_name))
    ELSE {<<>>}

\* A guess without the inode shortcut.
guess_shortcut_skipped(filled) == None

\* The inode shortcut, on the builder filled from the path.
guess_shortcut(filled) == guess_inode(filled)

\* GuessBuilder::guess: the values it can return.
guess(self, builder) ==
    LET filled == guess_fill(self, builder)
    IN IF is_some(guess_shortcut(filled)) THEN {Returned(unwrap(guess_shortcut(filled)))}
       ELSE {guess_decide(self, filled, n) : n \in guess_names(self, filled)}

-----------------------------------------------------------------------------
(* Actions                                                                 *)

\* The fields of self become those of `new`.
Assign(new) ==
    /\ aliases' = new.aliases
    /\ parents' = new.parents
    /\ icons' = new.icons
    /\ generic_icons' = new.generic_icons
    /\ globs' = new.globs
    /\ magic' = new.magic
    /\ mime_dirs' = new.mime_dirs

\* No result is pending.
Idle == op = "none"

\* The state after SharedMimeInfo::create, on the filesystem `disk`.
Created(disk) ==
    /\ fs = disk
    /\ clock = 0
    /\ aliases = create.aliases
    /\ parents = create.parents
    /\ icons = create.icons
    /\ generic_icons = create.generic_icons
    /\ globs = create.globs
    /\ magic = create.magic
    /\ mime_dirs = create.mime_dirs
    /\ op = "none"
    /\ args = <<>>
    /\ ret = <<>>

\* The call panics: the thread unwinds and nothing is returned.
Panic(place) ==
    /\ op' = "panic"
    /\ args' = <<place>>
    /\ ret' = <<>>
    /\ UNCHANGED <<fs, clock>>
    /\ UNCHANGED db_vars

\* new / new_for_directory: load_directory on the next directory of the path.
LoadDirectory ==
    /\ Idle
    /\ Len(mime_dirs) < Len(fs)
    /\ IF load_directory_panics(Len(mime_dirs) + 1, fs)
       THEN Panic("load_directory")
       ELSE /\ Assign(load_directory(Self, Len(mime_dirs) + 1, fs))
            /\ UNCHANGED <<fs, clock, op, args, ret>>

\* The caller takes the pending result.
Consume ==
    /\ ~Idle
    /\ op # "panic"
    /\ op' = "none"
    /\ args' = <<>>
    /\ ret' = <<>>
    /\ UNCHANGED <<fs, clock>>
    /\ UNCHANGED db_vars

\* SharedMimeInfo::unalias_mime_type.
UnaliasMimeType ==
    /\ Idle
    /\ \E mime_type \in Mimes :
        /\ op' = "unalias_mime_type"
        /\ args' = <<mime_type>>
        /\ ret' = <<unalias_mime_type(aliases, mime_type)>>
    /\ UNCHANGED <<fs, clock>>
    /\ UNCHANGED db_vars

\* SharedMimeInfo::mime_type_equal.
MimeTypeEqual ==
    /\ Idle
    /\ \E mime_a \in Mimes, mime_b \in Mimes :
        /\ op' = "mime_type_equal"
        /\ args' = <<mime_a, mime_b>>
        /\ ret' = <<mime_type_equal(aliases, mime_a, mime_b)>>
    /\ UNCHANGED <<fs, clock>>
    /\ UNCHANGED db_vars

\* SharedMimeInfo::mime_type_subclass.
MimeTypeSubclass ==
    /\ Idle
    /\ \E mime_type \in Mimes, base \in Mimes :
        /\ op' = "mime_type_subclass"
        /\ args' = <<mime_type, base>>
        /\ ret' = mime_type_subclass(aliases, parents, mime_type, base)
    /\ UNCHANGED <<fs, clock>>
    /\ UNCHANGED db_vars

\* SharedMimeInfo::get_mime_type_for_data.
GetMimeTypeForData ==
    /\ Idle
    /\ \E data \in SeqUpTo({65, 66}, MaxDataLen) :
        IF get_mime_type_for_data_panics(magic, data)
        THEN Panic("get_mime_type_for_data")
        ELSE /\ op' = "get_mime_type_for_data"
             /\ args' = <<data>>
             /\ ret' = <<get_mime_type_for_data(magic, data)>>
             /\ UNCHANGED <<fs, clock>>
             /\ UNCHANGED db_vars

\* SharedMimeInfo::reload.
Reload ==
    /\ Idle
    /\ IF reload_panics(Self, fs)
       THEN Panic("reload")
       ELSE LET r == reload(Self, fs)
            IN /\ Assign(r.self)
               /\ op' = "reload"
               /\ args' = <<>>
               /\ ret' = <<r.dropped_db>>
               /\ UNCHANGED <<fs, clock>>

\* The environment rewrites the files of a MIME directory, which sets the
\* directory's modification time to the current time.
ModifyDirectory(contents) ==
    /\ clock < MaxClock
    /\ clock' = clock + 1
    /\ \E d \in DOMAIN fs, c \in contents :
        fs' = [fs EXCEPT ![d] = [c EXCEPT !.mtime = clock + 1]]
    /\ UNCHANGED <<op, args, ret>>
    /\ UNCHANGED db_vars

\* The environment rewrites files of a MIME directory in place, which leaves
\* the directory's modification time as it was.
RewriteFiles(contents) ==
    /\ \E d \in DOMAIN fs, c \in contents :
        /\ fs[d].exists
        /\ c.exists
        /\ fs' = [fs EXCEPT ![d] = [c EXCEPT !.mtime = fs[d].mtime]]
    /\ UNCHANGED <<clock, op, args, ret>>
    /\ UNCHANGED db_vars

-----------------------------------------------------------------------------
(* SpecTypes: a database built from one directory holding an aliases and a *)
(* subclasses file, queried with mime_type_subclass.                       *)

AliasRecords == {Alias(a, m) : a \in Mimes, m \in Mimes}
SubclassRecords == {Subclass(m, p) : m \in Mimes, p \in Mimes}

TypesInit ==
    \E al \in SeqUpTo(AliasRecords, MaxAliases),
       sub \in SeqUpTo(SubclassRecords, MaxSubclasses) :
        Created(<<Directory(al, sub, <<>>, <<>>, 0)>>)

TypesNext ==
    \/ LoadDirectory
    \/ MimeTypeSubclass
    \/ Consume

SpecTypes == TypesInit /\ [][TypesNext]_vars

-----------------------------------------------------------------------------
(* What the claims about mime_type_subclass are stated with.               *)

\* The type unalias gives for x, or x itself when no record has x as alias.
Canonical(x) ==
    LET hits == {i \in DOMAIN aliases : aliases[i].alias = x}
    IN IF hits = {} THEN x ELSE aliases[Min(hits)].mime_type

\* The direct parents recorded for x.
ParentsOf(x) == IF x \in DOMAIN parents THEN Range(parents[x]) ELSE {}

\* The least set holding the members of S and, with x, every recorded parent
\* of x (its canonical type instead, when canonical is TRUE).
RECURSIVE Closure(_, _)
Closure(S, canonical) ==
    LET T == S \cup {IF canonical THEN Canonical(p) ELSE p :
                        p \in UNION {ParentsOf(x) : x \in S}}
    IN IF T = S THEN S ELSE Closure(T, canonical)

\* m and the types reachable from m through parent records.
Ancestors(m) == Closure({m}, FALSE)

\* The canonical type of m and the types reachable from it through parent
\* records, each parent replaced by its canonical type.
CanonicalAncestors(m) == Closure({Canonical(m)}, TRUE)

SubclassAsked == op = "mime_type_subclass"

C5_Terminates ==
    SubclassAsked => ret \in {Returned(TRUE), Returned(FALSE)}

-----------------------------------------------------------------------------
(* SpecAlias: a database built from the aliases files of one or several    *)
(* directories, queried with unalias_mime_type and mime_type_equal.        *)

\* The MIME types the aliases files of SpecAlias name.
AliasMimes == {TEXT_PLAIN, TEXT_RUST, INODE_DIRECTORY}

AliasInit ==
    \E n \in {MaxDirs} :
        \E al \in SeqUpTo({Alias(a, m) : a \in AliasMimes, m \in AliasMimes}, MaxAliasLines) :
            \E c \in Cuts(n, Len(al)) :
                Created([d \in 1..n |-> Directory(Piece(al, c, d), <<>>, <<>>, <<>>, 0)])

AliasNext ==
    \/ LoadDirectory
    \/ UnaliasMimeType
    \/ MimeTypeEqual
    \/ Consume

SpecAlias == AliasInit /\ [][AliasNext]_vars

\* The alias lines of the directories loaded so far, first directory first.
RECURSIVE LoadedAliasLines(_)
LoadedAliasLines(n) ==
    IF n = 0 THEN <<>> ELSE LoadedAliasLines(n - 1) \o fs[n].aliases

\* The positions of the alias records whose alias is x.
AliasHits(x) == {i \in DOMAIN aliases : aliases[i].alias = x}

\* C6 as stated: for every alias record (a -> c) of the database,
\* mime_type_equal(a, c) and mime_type_equal(c, a) are both true, also when c
\* is itself the alias of another type.
C6_Original ==
    (/\ op = "mime_type_equal"
     /\ \E i \in DOMAIN aliases :
            args \in {<<aliases[i].alias, aliases[i].mime_type>>,
                      <<aliases[i].mime_type, aliases[i].alias>>})
        => ret = <<TRUE>>

\* C6, amended: for every alias record (a -> c) that is the earliest record
\* for a, mime_type_equal(a, c) and mime_type_equal(c, a) are both true when c
\* is not itself recorded as the alias of a different type, and both false
\* when it is.
C6_AliasEqual ==
    op = "mime_type_equal" =>
        \A i \in DOMAIN aliases :
            (/\ i = Min(AliasHits(aliases[i].alias))
             /\ args \in {<<aliases[i].alias, aliases[i].mime_type>>,
                          <<aliases[i].mime_type, aliases[i].alias>>})
                => ret = <<Canonical(aliases[i].mime_type) = aliases[i].mime_type>>

\* An alias is found equal to its canonical type, in a table that also holds
\* an alias of that alias.
C6_Witness ==
    /\ op = "mime_type_equal"
    /\ aliases = <<Alias(TEXT_RUST, TEXT_PLAIN), Alias(INODE_DIRECTORY, TEXT_RUST)>>
    /\ args = <<TEXT_PLAIN, TEXT_RUST>>
    /\ ret = <<TRUE>>

\* C7: unalias_mime_type(m) returns the canonical type of the earliest alias
\* record for m, the records of the directory loaded first coming first, the
\* type as recorded (no second hop), and none when no record has m as alias.
C7_Unalias ==
    op = "unalias_mime_type" =>
        LET lines == LoadedAliasLines(Len(mime_dirs))
            hits == {i \in DOMAIN lines : lines[i].alias = args[1]}
        IN ret = <<IF hits = {} THEN None ELSE Some(lines[Min(hits)].mime_type)>>

\* Two directories alias the same type, the second to a type that is itself
\* an alias; the first directory's record is returned.
C7_Witness ==
    /\ op = "unalias_mime_type"
    /\ Len(mime_dirs) = 2
    /\ fs[1].aliases = <<Alias(TEXT_RUST, TEXT_PLAIN)>>
    /\ fs[2].aliases = <<Alias(TEXT_RUST, INODE_DIRECTORY)>>
    /\ args = <<TEXT_RUST>>
    /\ ret = <<Some(TEXT_PLAIN)>>

-----------------------------------------------------------------------------
(* SpecGlob: a database built from the globs2 files of the search path,    *)
(* queried with get_mime_types_from_file_name.                             *)

\* The patterns of the globs2 lines: two suffixes, a literal, a full glob.
GlobPatterns == {<<"*", ".", "c">>, <<"*", ".", "C">>, <<"a", ".", "c">>, <<"a", "*">>}

\* The globs2 lines "weight:mime:pattern[:cs]" of SpecGlob, parsed.
GlobLines ==
    {Glob(m, p, w, cs) : m \in {TEXT_PLAIN, TEXT_RUST}, p \in GlobPatterns,
                         w \in {50, 80}, cs \in BOOLEAN}

\* The file names asked about.
FileNames == {<<"a", ".", "c">>, <<"A", ".", "C">>, <<"a", ".", "C">>, <<"c">>, <<>>}

\* SharedMimeInfo::get_mime_types_from_file_name.
GetMimeTypesFromFileName ==
    /\ Idle
    /\ \E file_name \in FileNames :
        \E v \in get_mime_types_from_file_name(globs, file_name) :
            /\ op' = "get_mime_types_from_file_name"
            /\ args' = <<file_name>>
            /\ ret' = <<v>>
    /\ UNCHANGED <<fs, clock>>
    /\ UNCHANGED db_vars

GlobInit ==
    \E gl \in SeqUpTo(GlobLines, MaxGlobLines) :
        \E c \in Cuts(MaxDirs, Len(gl)) :
            Created([d \in 1..MaxDirs |-> Directory(<<>>, <<>>, Piece(gl, c, d), <<>>, 0)])

GlobNext ==
    \/ LoadDirectory
    \/ GetMimeTypesFromFileName
    \/ Consume

SpecGlob == GlobInit /\ [][GlobNext]_vars

\* C1: get_mime_types_from_file_name returns a non-empty list for every
\* database (an empty one included) and every file name, and exactly
\* [application/octet-stream] when no stored glob matches the name.
C1_NeverEmpty ==
    op = "get_mime_types_from_file_name" =>
        /\ ret[1] # <<>>
        /\ (\A g \in globs : ~compare(g, args[1]))
                => ret[1] = <<APPLICATION_OCTET_STREAM>>

\* A database that holds globs, none of which matches the name asked about.
C1_Witness ==
    /\ op = "get_mime_types_from_file_name"
    /\ Cardinality(globs) = 2
    /\ \A g \in globs : ~compare(g, args[1])
    /\ ret = <<<<APPLICATION_OCTET_STREAM>>>>

\* C17: the list returned for a file name that some stored glob matches
\* holds exactly one MIME type per stored glob matching the name, in
\* non-decreasing order of the globs' weights.
C17_WeightOrder ==
    op = "get_mime_types_from_file_name" =>
        LET matching == {g \in globs : compare(g, args[1])}
        IN matching # {} =>
            \E o \in [DOMAIN ret[1] -> matching] :
                /\ \A g \in matching : \E i \in DOMAIN o : o[i] = g
                /\ \A i, j \in DOMAIN o : i # j => o[i] # o[j]
                /\ \A i \in DOMAIN o : ret[1][i] = o[i].mime_type
                /\ \A i, j \in DOMAIN o : i < j => o[i].weight <= o[j].weight

\* Two stored globs of weights 80 and 50 match the name: the type of the
\* glob of weight 50 comes first.
C17_Witness ==
    /\ op = "get_mime_types_from_file_name"
    /\ args = <<<<"a", ".", "c">>>>
    /\ globs = {Glob(TEXT_PLAIN, <<"*", ".", "c">>, 80, FALSE),
                Glob(TEXT_RUST, <<"a", ".", "c">>, 50, TRUE)}
    /\ ret = <<<<TEXT_RUST, TEXT_PLAIN>>>>

\* The globs2 lines of the first n directories of the search path, in the
\* order in which they were inserted.
RECURSIVE LoadedGlobLines(_)
LoadedGlobLines(n) ==
    IF n = 0 THEN <<>> ELSE LoadedGlobLines(n - 1) \o fs[n].globs

\* Two globs2 lines have the same pattern and the same MIME type.
SamePair(a, b) == a.glob = b.glob /\ a.mime_type = b.mime_type

\* C25: the glob set holds at most one glob per (pattern, MIME type) pair,
\* and for every inserted line it holds the first inserted line of the same
\* pair, with the weight and the case-sensitivity flag of that line.
C25_FirstInsertion ==
    LET lines == LoadedGlobLines(Len(mime_dirs))
    IN /\ \A g, h \in globs : SamePair(g, h) => g = h
       /\ \A g \in globs : \E i \in DOMAIN lines : lines[i] = g
       /\ \A i \in DOMAIN lines :
            lines[Min({k \in DOMAIN lines : SamePair(lines[k], lines[i])})] \in globs

\* The second directory repeats a pair of the first with another weight and
\* another flag: the set holds the line of the first directory only.
C25_Witness ==
    /\ Len(mime_dirs) = 2
    /\ Len(fs[1].globs) = 1
    /\ Len(fs[2].globs) = 1
    /\ SamePair(fs[1].globs[1], fs[2].globs[1])
    /\ fs[1].globs[1].weight = 80
    /\ fs[2].globs[1].weight = 50
    /\ fs[1].globs[1].case_sensitive # fs[2].globs[1].case_sensitive
    /\ globs = {fs[1].globs[1]}

\* The file name ends with the suffix s: exactly when the glob is case
\* sensitive, up to letter case when it is not.
SuffixExpected(g, file_name) ==
    IF g.case_sensitive THEN ends_with(file_name, g.glob.s)
    ELSE ends_with(to_lowercase(file_name), to_lowercase(g.glob.s))

\* C26: a stored suffix glob '*s' contributes its MIME type to the answer
\* for every file name whose ending equals s, letter case ignored when
\* case_sensitive is false (also for a suffix with upper-case letters) and
\* exactly when it is true; it contributes for no other file name.
C26_SuffixCase ==
    op = "get_mime_types_from_file_name" =>
        \A g \in globs :
            g.glob.kind = "Simple" =>
                /\ SuffixExpected(g, args[1]) => Contains(ret[1], g.mime_type)
                /\ (globs = {g} /\ Contains(ret[1], g.mime_type))
                        => SuffixExpected(g, args[1])

-----------------------------------------------------------------------------
(* SpecEntry: a database holding one magic entry, queried with             *)
(* get_mime_type_for_data.                                                 *)

\* A rule "value at offset", one byte long, no mask.
ByteAt(indent, byte, offset) == MagicRule(indent, offset, <<byte>>, None, 1, 1)

\* The rule lists of n rules that are the pre-order of a tree: the first rule
\* at indent 0, each rule at most one level deeper than the one before it.
RuleLists(n) ==
    {r \in [1..n -> {ByteAt(i, b, o) : i \in 0..(n - 1), b \in {65, 66}, o \in {0, 1}}] :
        /\ r[1].indent = 0
        /\ \A k \in 1..(n - 1) : r[k + 1].indent <= r[k].indent + 1}

EntryInit ==
    \E n \in 1..MaxRules :
        \E rules \in RuleLists(n) :
            Created(<<Directory(<<>>, <<>>, <<>>, <<MagicEntry(TEXT_RUST, 50, rules)>>, 0)>>)

EntryNext ==
    \/ LoadDirectory
    \/ GetMimeTypeForData
    \/ Consume

SpecEntry == EntryInit /\ [][EntryNext]_vars

\* The parent of rule j in the tree the list encodes: the last rule before j
\* with a smaller indent.
TreeParent(rules, j) ==
    CHOOSE i \in 1..(j - 1) :
        /\ rules[i].indent < rules[j].indent
        /\ \A k \in (i + 1)..(j - 1) : rules[k].indent >= rules[j].indent

\* Rule i has no child: it is the last rule or the next rule is not deeper.
TreeLeaf(rules, i) == i = Len(rules) \/ rules[i + 1].indent <= rules[i].indent

\* Rule i and all its ancestors match the data.
RECURSIVE PathMatches(_, _, _)
PathMatches(rules, data, i) ==
    /\ matches_data(rules[i], data)
    /\ rules[i].indent = 0 \/ PathMatches(rules, data, TreeParent(rules, i))

\* Some root-to-leaf path of the tree has all its rules matching the data.
TreeMatches(rules, data) ==
    \E i \in DOMAIN rules : TreeLeaf(rules, i) /\ PathMatches(rules, data, i)

\* C8: MagicEntry::matches reports a match if and only if the tree the rule
\* list encodes has a root-to-leaf path all of whose rules match the data.
C8_TreeReading ==
    (op = "get_mime_type_for_data" /\ args[1] # <<>> /\ Len(magic) = 1)
        => (is_some(ret[1]) <=> TreeMatches(magic[1].rules, args[1]))

-----------------------------------------------------------------------------
(* SpecMagic: a database built from the magic files of the search path,    *)
(* each file sorted by priority, reloaded when the files are rewritten,    *)
(* and queried with get_mime_type_for_data.                                *)

\* The entries of the magic files of SpecMagic: one rule each.
MagicEntries ==
    {MagicEntry(m, p, <<ByteAt(0, b, 0)>>) :
        m \in {TEXT_PLAIN, TEXT_RUST}, p \in {50, 80}, b \in {65, 66}}

\* The magic files: entries in non-increasing order of priority, as
\* update-mime-database writes them.
MagicFiles ==
    {f \in SeqUpTo(MagicEntries, MaxFileEntries) :
        \A i, j \in DOMAIN f : i < j => f[i].priority >= f[j].priority}

MagicDirectories == {Directory(<<>>, <<>>, <<>>, f, 0) : f \in MagicFiles}

MagicInit ==
    \E disk \in [1..MaxDirs -> MagicDirectories] : Created(disk)

MagicNext ==
    \/ LoadDirectory
    \/ Reload
    \/ ModifyDirectory(MagicDirectories)
    \/ GetMimeTypeForData
    \/ Consume

SpecMagic == MagicInit /\ [][MagicNext]_vars

\* The positions of the entries of the database that match the data.
MagicHits(data) == {i \in DOMAIN magic : is_some(matches(magic[i], data))}

\* C9: for non-empty data, get_mime_type_for_data returns the (mime,
\* priority) of the first entry, in the order the entries were loaded, that
\* matches the data, and none when no entry matches.
C9_FirstMatch ==
    (op = "get_mime_type_for_data" /\ args[1] # <<>>) =>
        LET hits == MagicHits(args[1])
        IN ret = <<IF hits = {} THEN None
                   ELSE Some(<<magic[Min(hits)].mime_type, magic[Min(hits)].priority>>)>>

\* Two entries match the data; the one loaded first is returned although the
\* one loaded second has the higher priority.
C9_Witness ==
    /\ op = "get_mime_type_for_data"
    /\ Len(magic) = 2
    /\ MagicHits(args[1]) = {1, 2}
    /\ magic[1].priority < magic[2].priority
    /\ ret = <<Some(<<magic[1].mime_type, magic[1].priority>>)>>

\* C10: after any sequence of load_directory calls, and after reload, the
\* list of magic entries is in non-increasing priority order, so the entry
\* the lookup returns has a priority greater than or equal to that of every
\* other entry matching the same data.
C10_PriorityOrder ==
    /\ \A i, j \in DOMAIN magic : i < j => magic[i].priority >= magic[j].priority
    /\ (op = "get_mime_type_for_data" /\ args[1] # <<>> /\ is_some(ret[1]))
            => \A i \in MagicHits(args[1]) : ret[1][1][2] >= magic[i].priority

-----------------------------------------------------------------------------
(* SpecGuess: a database built from one directory holding a globs2, a      *)
(* magic and a subclasses file, asked to guess the MIME type of what a     *)
(* GuessBuilder describes.                                                 *)

\* The globs2 lines of SpecGuess: the literal "a" and the suffix "" (every
\* name), all of weight 50.
GuessGlobLines ==
    {Glob(m, p, 50, FALSE) : m \in {TEXT_PLAIN, TEXT_RUST, APPLICATION_OCTET_STREAM},
                             p \in {<<"a">>, <<"*">>}}

\* The magic entries of SpecGuess: the byte 'A' at offset 1.
GuessMagicEntries ==
    {MagicEntry(m, p, <<ByteAt(0, 65, 1)>>) :
        m \in {TEXT_RUST, APPLICATION_OCTET_STREAM}, p \in {50, 80}}

\* The subclasses lines of SpecGuess.
GuessSubclassRecords ==
    {Subclass(TEXT_PLAIN, TEXT_RUST), Subclass(TEXT_PLAIN, TEXT_PLAIN),
     Subclass(APPLICATION_OCTET_STREAM, TEXT_RUST)}

\* The files a path given to the builder can lead to: a file of two bytes, an
\* empty file, a file that cannot be read, a directory, a directory reached
\* through "..", nothing. fs::metadata follows symbolic links.
GuessPaths ==
    {PathFile(Some(<<"a">>), Some(Metadata("file", 2)), Some(<<65, 65>>)),
     PathFile(Some(<<"a">>), Some(Metadata("file", 0)), Some(<<>>)),
     PathFile(Some(<<"a">>), Some(Metadata("file", 2)), None),
     PathFile(Some(<<"a">>), Some(Metadata("dir", 2)), None),
     PathFile(None, Some(Metadata("dir", 2)), None),
     PathFile(Some(<<"a">>), None, None)}

\* The metadata handed to the builder.
GuessMetadata ==
    {Metadata("dir", 2), Metadata("symlink", 2), Metadata("file", 0), Metadata("file", 2)}

\* The builders made by calling each of file_name, data, metadata and path at
\* most once on the builder guess_mime_type returns.
GuessBuilders(self) ==
    LET b0 == {guess_mime_type}
        b1 == b0 \cup {builder_file_name(b, n) : b \in b0, n \in {<<"a">>, <<"b">>}}
        b2 == b1 \cup {builder_data(self, b, d) : b \in b1, d \in SeqUpTo({1, 65}, MaxDataLen)}
        b3 == b2 \cup {builder_metadata(b, m) : b \in b2, m \in GuessMetadata}
    IN b3 \cup {builder_path(b, f) : b \in b3, f \in GuessPaths}

\* GuessBuilder::guess.
GuessMimeType ==
    /\ Idle
    /\ \E builder \in GuessBuilders(Self) :
        \E v \in guess(Self, builder) :
            /\ op' = "guess"
            /\ args' = <<builder>>
            /\ ret' = v
    /\ UNCHANGED <<fs, clock>>
    /\ UNCHANGED db_vars

GuessInit ==
    \E gl \in SeqUpTo(GuessGlobLines, MaxGlobLines),
       mg \in SeqUpTo(GuessMagicEntries, MaxFileEntries),
       sub \in SeqUpTo(GuessSubclassRecords, MaxGuessSubclasses) :
        Created(<<Directory(<<>>, sub, gl, mg, 0)>>)

GuessNext ==
    \/ LoadDirectory
    \/ GuessMimeType
    \/ Consume

SpecGuess == GuessInit /\ [][GuessNext]_vars

\* The metadata guess has at hand: the one set on the builder, or the one of
\* the path when none was set.
GuessMetadataAtHand ==
    IF is_some(args[1].metadata) THEN args[1].metadata
    ELSE IF is_some(args[1].path) THEN unwrap(args[1].path).metadata
    ELSE None

\* C11: when metadata is at hand and tells of a directory, a symbolic link
\* or a file of length zero, guess returns inode/directory, inode/symlink or
\* application/x-zerosize, uncertain, whatever file name and data were set.
C11_InodeShortcut ==
    (op = "guess" /\ is_some(GuessMetadataAtHand)) =>
        LET md == unwrap(GuessMetadataAtHand)
        IN /\ md.file_type = "dir" => ret = Returned(Guess(INODE_DIRECTORY, TRUE))
           /\ md.file_type = "symlink" => ret = Returned(Guess(INODE_SYMLINK, TRUE))
           /\ (md.file_type = "file" /\ md.len = 0)
                  => ret = Returned(Guess(APPLICATION_X_ZEROSIZE, TRUE))

\* A builder with a file name a glob maps to one type and with data a magic
\* entry matches, for an empty file: the guess is application/x-zerosize.
C11_Witness ==
    /\ op = "guess"
    /\ args[1].metadata = Some(Metadata("file", 0))
    /\ args[1].file_name = Some(<<"a">>)
    /\ args[1].data = <<65, 65>>
    /\ globs = {Glob(TEXT_PLAIN, <<"a">>, 50, FALSE)}
    /\ magic # <<>>
    /\ ret = Returned(Guess(APPLICATION_X_ZEROSIZE, TRUE))

\* The builder after guess filled it from the path.
GuessFilled == guess_fill(Self, args[1])

\* guess was called and no inode shortcut applies.
GuessNoShortcut == op = "guess" /\ ~is_some(guess_inode(GuessFilled))

\* The name candidates N guess can have got.
GuessN == guess_names(Self, GuessFilled)

\* The sniffed (type, priority) of guess.
GuessSniffed == guess_sniffed(Self, GuessFilled.data)

\* The sniffed type after the text fallback.
GuessSniffedType == guess_text(GuessSniffed[1], GuessFilled.data)

\* The name candidates are not empty and are not one type other than
\* application/octet-stream.
GuessConflict(n) == n # <<>> /\ ~(Len(n) = 1 /\ n[1] # APPLICATION_OCTET_STREAM)

\* C12: when no inode shortcut applies and the name candidates are exactly
\* one MIME type other than application/octet-stream, guess returns that
\* type, certain, whatever data was set.
C12_DefinitiveName ==
    GuessNoShortcut =>
        \A n \in GuessN :
            (Len(n) = 1 /\ n[1] # APPLICATION_OCTET_STREAM)
                => ret = Returned(Guess(n[1], FALSE))

\* The file name has one candidate, text/plain, and the data matches a magic
\* entry of priority 80 for text/rust: the guess is text/plain, certain.
C12_Witness ==
    /\ op = "guess"
    /\ args[1].file_name = Some(<<"a">>)
    /\ args[1].data = <<65, 65>>
    /\ args[1].metadata = None
    /\ args[1].path = None
    /\ globs = {Glob(TEXT_PLAIN, <<"a">>, 50, FALSE)}
    /\ magic = <<MagicEntry(TEXT_RUST, 80, <<ByteAt(0, 65, 1)>>)>>
    /\ ret = Returned(Guess(TEXT_PLAIN, FALSE))

\* C13: when the builder holds no data, the sniffed result is taken to be
\* (application/octet-stream, 80), so a guess made with no data from a file
\* name that matches no glob is not application/x-zerosize.
C13_NoData ==
    (/\ GuessNoShortcut
     /\ GuessFilled.data = <<>>
     /\ is_some(GuessFilled.file_name)
     /\ \A g \in globs : ~compare(g, unwrap(GuessFilled.file_name))
     /\ ret # StackOverflow)
        => ret[1].mime # APPLICATION_X_ZEROSIZE

\* C14: with no file name, data that is not empty, that no magic entry
\* matches and that looks like text, guess returns text/plain, certain.
C14_TextFallback ==
    (/\ GuessNoShortcut
     /\ ~is_some(GuessFilled.file_name)
     /\ GuessFilled.data # <<>>
     /\ \A i \in DOMAIN magic : ~is_some(matches(magic[i], GuessFilled.data))
     /\ looks_like_text(GuessFilled.data))
        => ret = Returned(Guess(TEXT_PLAIN, FALSE))

\* C15 as stated: when the name candidates are not empty and not definitive
\* and the sniffed priority is 80 or more, guess returns the sniffed type,
\* certain, application/octet-stream included.
C15_Original ==
    GuessNoShortcut =>
        \A n \in GuessN :
            (GuessConflict(n) /\ GuessSniffed[2] >= 80)
                => ret \in {Returned(Guess(GuessSniffed[1], FALSE)),
                            Returned(Guess(GuessSniffedType, FALSE))}

\* C15, amended: when the name candidates N are not empty and not definitive
\* and the sniffed priority is 80 or more, guess returns the sniffed type
\* after the text fallback, certain, if that type is not
\* application/octet-stream, and the first name candidate, uncertain, if it
\* is.
C15_Confident ==
    (GuessNoShortcut /\ GuessSniffed[2] >= 80 /\ \E n \in GuessN : GuessConflict(n)) =>
        IF GuessSniffedType # APPLICATION_OCTET_STREAM
        THEN ret = Returned(Guess(GuessSniffedType, FALSE))
        ELSE \E n \in GuessN : ret = Returned(Guess(n[1], TRUE))

\* Two name candidates, data that no magic entry matches and that does not
\* look like text: the guess is the first candidate, uncertain.
C15_Witness ==
    /\ op = "guess"
    /\ args[1].file_name = Some(<<"a">>)
    /\ args[1].data = <<1>>
    /\ args[1].metadata = None
    /\ args[1].path = None
    /\ globs = {Glob(TEXT_PLAIN, <<"a">>, 50, FALSE), Glob(TEXT_RUST, <<"*">>, 50, FALSE)}
    /\ magic # <<>>
    /\ GuessSniffed = <<APPLICATION_OCTET_STREAM, 80>>
    /\ ret = Returned(Guess(TEXT_RUST, TRUE))

\* The guess the tie breaker is said to make for the name candidates n and
\* the sniffed type mime: the first candidate that is a subclass of mime,
\* certain, and the first candidate, uncertain, without one.
GuessRefined(n, mime) ==
    LET hits == {i \in DOMAIN n :
                    mime_type_subclass(aliases, parents, n[i], mime) = Returned(TRUE)}
    IN IF hits # {} THEN Guess(n[Min(hits)], FALSE) ELSE Guess(n[1], TRUE)

-----------------------------------------------------------------------------
(* SpecReload: a database built from the directories of the search path,   *)
(* which the environment rewrites, removes and creates, and which the      *)
(* program reloads.                                                        *)

\* icon::Icon::new.
Icon(icon_name, mime_type) == [icon_name |-> icon_name, mime_type |-> mime_type]

\* What a MIME directory can hold in SpecReload: nothing, one record in each
\* of the six files, other records in each of the six files; or the
\* directory is not there.
ReloadDirectories ==
    {Directory(<<>>, <<>>, <<>>, <<>>, 0),
     FullDirectory(<<Alias(TEXT_RUST, TEXT_PLAIN)>>,
                   <<Subclass(TEXT_RUST, TEXT_PLAIN)>>,
                   <<Icon("x", TEXT_PLAIN)>>,
                   <<Icon("g", TEXT_PLAIN)>>,
                   <<Glob(TEXT_PLAIN, <<"a">>, 50, FALSE)>>,
                   <<MagicEntry(TEXT_PLAIN, 50, <<ByteAt(0, 65, 0)>>)>>, 0),
     FullDirectory(<<Alias(TEXT_RUST, APPLICATION_OCTET_STREAM)>>,
                   <<Subclass(TEXT_RUST, APPLICATION_OCTET_STREAM)>>,
                   <<Icon("y", TEXT_PLAIN)>>,
                   <<Icon("h", TEXT_RUST)>>,
                   <<Glob(TEXT_PLAIN, <<"a">>, 80, FALSE)>>,
                   <<MagicEntry(TEXT_RUST, 80, <<ByteAt(0, 65, 0)>>)>>, 0),
     Missing}

ReloadInit ==
    \E disk \in [1..MaxDirs -> ReloadDirectories] : Created(disk)

ReloadNext ==
    \/ LoadDirectory
    \/ Reload
    \/ ModifyDirectory(ReloadDirectories)
    \/ RewriteFiles(ReloadDirectories)
    \/ Consume

SpecReload == ReloadInit /\ [][ReloadNext]_vars

\* reload is called in this step.
ReloadCalled == op = "none" /\ op' = "reload"

\* Recorded directory i is seen with a modification time later than the
\* recorded one.
ReloadNewer(i) ==
    /\ fs[mime_dirs[i].path].exists
    /\ mime_dirs[i].mtime < fs[mime_dirs[i].path].mtime

\* C18: when no recorded directory is seen with a modification time later
\* than the recorded one (a directory that cannot be stat'ed is not), reload
\* returns false and leaves the six tables and the recorded directories as
\* they were.
C18_ReloadUnchanged ==
    [][(ReloadCalled /\ \A i \in DOMAIN mime_dirs : ~ReloadNewer(i))
            => (ret' = <<FALSE>> /\ UNCHANGED db_vars)]_vars

\* reload returned false for a database that holds records of a directory
\* that has been removed since.
C18_Witness ==
    /\ op = "reload"
    /\ ret = <<FALSE>>
    /\ Len(mime_dirs) = MaxDirs
    /\ ~fs[1].exists
    /\ Len(aliases) = 2
    /\ Len(magic) = 2

\* The lines of a file, over the directories `paths`, in that order.
RECURSIVE FreshLines(_, _)
FreshLines(paths, file) ==
    IF paths = <<>> THEN <<>>
    ELSE fs[Head(paths)][file] \o FreshLines(Tail(paths), file)

\* C19: when a recorded directory is seen with a modification time later
\* than the recorded one, reload returns true and the database afterwards is
\* the one a fresh construction builds from the same directories in the
\* same order: the tables hold what the files hold now, once, and the
\* recorded directories have the same paths in the same order.
C19_ReloadFresh ==
    [][(ReloadCalled /\ \E i \in DOMAIN mime_dirs : ReloadNewer(i)) =>
            LET paths == [i \in DOMAIN mime_dirs |-> mime_dirs[i].path]
            IN /\ ret' = <<TRUE>>
               /\ aliases' = FreshLines(paths, "aliases")
               /\ parents' = add_subclasses(EmptyMap, FreshLines(paths, "subclasses"))
               /\ icons' = FreshLines(paths, "icons")
               /\ generic_icons' = FreshLines(paths, "generic_icons")
               /\ globs' = add_globs({}, FreshLines(paths, "globs"))
               /\ magic' = FreshLines(paths, "magic")
               /\ mime_dirs' = [i \in DOMAIN paths |->
                                   MimeDirectory(paths[i],
                                       IF fs[paths[i]].exists THEN fs[paths[i]].mtime
                                       ELSE clock)]]_vars

\* reload returned true and the database holds the records of the two
\* directories as they are now, the rewritten one included.
C19_Witness ==
    /\ op = "reload"
    /\ ret = <<TRUE>>
    /\ Len(mime_dirs) = MaxDirs
    /\ clock = 1
    /\ Len(aliases) = 2
    /\ aliases = FreshLines(<<1, 2>>, "aliases")
    /\ aliases[1] # aliases[2]

\* SharedMimeInfo::new on the search path of `disk`: load_directory on each
\* directory, in order.
new(disk) ==
    reload_dirs(create, [d \in DOMAIN disk |-> MimeDirectory(d, 0)], disk)

\* C30: a reload called right after a reload, or right after the
\* construction of the database, on the filesystem as it was then, returns
\* false: the modification times recorded by the first call are not earlier
\* than the ones the second call sees.
C30_ReloadTwice ==
    [][/\ ReloadCalled => ~reload(Self', fs').dropped_db
       /\ ~reload(new(fs), fs).dropped_db]_vars

\* reload rebuilt the database after the first directory was rewritten, the
\* second directory being absent; a reload called now returns false.
C30_Witness ==
    /\ op = "reload"
    /\ ret = <<TRUE>>
    /\ Len(mime_dirs) = MaxDirs
    /\ fs[1].exists
    /\ fs[1].mtime = 1
    /\ mime_dirs[1].mtime = 1
    /\ ~fs[2].exists
    /\ ~reload(Self, fs).dropped_db

-----------------------------------------------------------------------------
(* SpecMalformed: a database built from directories whose icons, globs2    *)
(* and magic files may hold records that cannot be used, queried with      *)
(* get_mime_type_for_data.                                                 *)

\* The lines of the icons files: a record, a line that is not UTF-8.
MalformedIconLines == {Icon("x", TEXT_PLAIN), UndecodableLine}

\* The lines of the globs2 files: a literal, a pattern with an open bracket.
MalformedGlobLines ==
    {Glob(TEXT_PLAIN, <<"a">>, 50, FALSE), Glob(TEXT_PLAIN, <<"a", "[">>, 50, FALSE)}

\* The entries of the magic files: a rule on the byte 'A', a rule whose
\* value has length zero.
MalformedMagicEntries ==
    {MagicEntry(TEXT_PLAIN, 50, <<ByteAt(0, 65, 0)>>),
     MagicEntry(TEXT_RUST, 50, <<MagicRule(0, 0, <<>>, None, 1, 1)>>)}

MalformedDirectories ==
    {FullDirectory(<<>>, <<>>, ic, <<>>, gl, mg, 0) :
        ic \in SeqUpTo(MalformedIconLines, 1),
        gl \in SeqUpTo(MalformedGlobLines, 1),
        mg \in SeqUpTo(MalformedMagicEntries, MaxFileEntries)}

MalformedInit ==
    \E disk \in [1..MaxDirs -> MalformedDirectories] : Created(disk)

MalformedNext ==
    \/ LoadDirectory
    \/ GetMimeTypeForData
    \/ Consume

SpecMalformed == MalformedInit /\ [][MalformedNext]_vars

\* C20: loading does not panic on table content that cannot be used, and
\* queries do not panic on what was loaded.
C20_NoPanic == op # "panic"

\* A query panics on a database that was loaded without a panic.
C20_QueryPanics ==
    /\ op = "panic"
    /\ args = <<"get_mime_type_for_data">>
    /\ Len(mime_dirs) = MaxDirs

-----------------------------------------------------------------------------
(* SpecRule: one magic rule, as the parser of the magic file builds it,    *)
(* matched against data with MagicRule::matches_data.                      *)

\* The bytes of values and data: 'A', 'B', 'a'.
RuleBytes == {65, 66, 97}

\* The bytes of masks: no bit, all bits but 0x20, every bit.
MaskBytes == {0, 223, 255}

\* The rules magic_rule builds: a value of any length, zero included, and a
\* mask, when there is one, of the length of the value.
Rules ==
    {rule \in [indent : {0},
               start_offset : 0..MaxOffset,
               value : SeqUpTo({65, 66}, MaxValueLen),
               mask : {None} \cup {Some(k) : k \in SeqUpTo(MaskBytes, MaxValueLen)},
               word_size : {1},
               range_length : 0..MaxRange] :
        is_some(rule.mask) => Len(unwrap(rule.mask)) = Len(rule.value)}

\* rule.matches_data(data), called on a rule as the tests of magic.rs do.
MatchesData ==
    /\ Idle
    /\ \E rule \in Rules, data \in SeqUpTo(RuleBytes, MaxRuleData) :
        /\ args' = <<rule, data>>
        /\ IF matches_data_panics(rule, data)
           THEN op' = "panic" /\ ret' = <<>>
           ELSE op' = "matches_data" /\ ret' = <<matches_data(rule, data)>>
    /\ UNCHANGED <<fs, clock>>
    /\ UNCHANGED db_vars

RuleInit == Created(<<>>)

RuleNext ==
    \/ MatchesData
    \/ Consume

SpecRule == RuleInit /\ [][RuleNext]_vars

\* matches_data was called on args[1] and args[2], and returned or panicked.
RuleCalled == op \in {"matches_data", "panic"}

\* The call returned true.
RuleMatched == op = "matches_data" /\ ret = <<TRUE>>

\* The positions section 4.4 of the specification admits: S <= i < S + R
\* with i + L <= len(data).
RulePositions(rule, data) ==
    {i \in 0..Len(data) :
        /\ rule.start_offset <= i
        /\ i < rule.start_offset + rule.range_length
        /\ i + Len(rule.value) <= Len(data)}

\* C21: a rule without mask, with value of length L, offset S and range_len
\* R, matches data exactly when at some position i with S <= i < S + R and
\* i + L <= len(data) the window data[i..i+L] equals the value.
C21_Positions ==
    (RuleCalled /\ args[1].mask = None) =>
        (RuleMatched <=>
            \E i \in RulePositions(args[1], args[2]) :
                SubSeq(args[2], i + 1, i + Len(args[1].value)) = args[1].value)

\* Bit k of the byte x.
Bit(x, k) == (x \div (2 ^ k)) % 2

\* The byte whose bits are those set in both x and y.
BitsOfBoth(x, y) ==
    LET RECURSIVE sum(_)
        sum(k) == IF k > 7 THEN 0 ELSE (2 ^ k) * Bit(x, k) * Bit(y, k) + sum(k + 1)
    IN sum(0)

\* C22: a rule with a mask matches exactly when at some admitted position i
\* (data[i+j] & mask[j]) = (value[j] & mask[j]) for every j in [0, L), so
\* that bits cleared in the mask do not count.
C22_Mask ==
    (RuleCalled /\ is_some(args[1].mask)) =>
        (RuleMatched <=>
            \E i \in RulePositions(args[1], args[2]) :
                \A j \in 1..Len(args[1].value) :
                    BitsOfBoth(args[2][i + j], unwrap(args[1].mask)[j])
                        = BitsOfBoth(args[1].value[j], unwrap(args[1].mask)[j]))

-----------------------------------------------------------------------------
(* SpecBuilder: a database built from the magic files of the search path,  *)
(* and a GuessBuilder on it that is handed data.                           *)

\* The rules of SpecBuilder, of extent 2, 3, 4 and 1: 'A' at 0, 'B' at 1,
\* "AB" at 0 or 1, and a value of length zero.
BuilderRules(indent) ==
    {MagicRule(indent, 0, <<65>>, None, 1, 1),
     MagicRule(indent, 1, <<66>>, None, 1, 1),
     MagicRule(indent, 0, <<65, 66>>, None, 1, 2),
     MagicRule(indent, 0, <<>>, None, 1, 1)}

\* The entries: one rule, or two rules of which the second is a sibling or a
\* child of the first.
BuilderEntries ==
    {MagicEntry(TEXT_RUST, 50, <<r>>) : r \in BuilderRules(0)} \cup
    {MagicEntry(TEXT_PLAIN, 50, <<r, q>>) :
        r \in BuilderRules(0), q \in BuilderRules(0) \cup BuilderRules(1)}

BuilderDirectories ==
    {Directory(<<>>, <<>>, <<>>, f, 0) : f \in SeqUpTo(BuilderEntries, MaxFileEntries)}

\* SharedMimeInfo::guess_mime_type: the caller holds a new builder.
GuessMimeTypeBuilder ==
    /\ Idle
    /\ op' = "builder"
    /\ args' = <<>>
    /\ ret' = <<guess_mime_type>>
    /\ UNCHANGED <<fs, clock>>
    /\ UNCHANGED db_vars

\* GuessBuilder::data on the builder the caller holds; args lists the slices
\* handed to the builder so far.
BuilderData ==
    /\ op = "builder"
    /\ Len(args) < MaxDataCalls
    /\ \E data \in SeqUpTo({65, 66}, MaxChunkLen) :
        /\ args' = Append(args, data)
        /\ ret' = <<builder_data(Self, ret[1], data)>>
    /\ UNCHANGED <<fs, clock, op>>
    /\ UNCHANGED db_vars

BuilderInit ==
    \E disk \in [1..MaxDirs -> BuilderDirectories] : Created(disk)

BuilderNext ==
    \/ LoadDirectory
    \/ GuessMimeTypeBuilder
    \/ BuilderData
    \/ Consume

SpecBuilder == BuilderInit /\ [][BuilderNext]_vars

\* C23: max_extents of the entries of the database is at least
\* offset + range_len + len(value) of every rule of every entry, and is 0
\* when the database has no entry.
C23_MaxExtents ==
    /\ \A e \in DOMAIN magic :
        \A r \in DOMAIN magic[e].rules :
            max_extents(magic) >=
                magic[e].rules[r].start_offset + magic[e].rules[r].range_length
                    + Len(magic[e].rules[r].value)
    /\ magic = <<>> => max_extents(magic) = 0

\* A builder was handed data on a database of two entries, where the rule of
\* the largest extent is the second rule of the second entry.
C23_Witness ==
    /\ op = "builder"
    /\ Len(args) = 1
    /\ Len(magic) = 2
    /\ Len(magic[2].rules) = 2
    /\ extent(magic[2].rules[2]) = 4
    /\ extent(magic[2].rules[1]) < 4
    /\ entry_max_extents(magic[1]) < 4
    /\ max_extents(magic) = 4

-----------------------------------------------------------------------------
(* SpecText: looks_like_text called on data of up to MaxTextLen bytes.     *)

\* The bytes that tell the cases of looks_like_text apart: NUL, tab, LF, VT,
\* FF, CR, ESC, space, 'A', DEL, and two bytes that are not ASCII.
TextBytes == {0, 9, 10, 11, 12, 13, 27, 32, 65, 127, 128, 255}

\* The data: n bytes 'A' with the byte b at position k, for lengths and
\* positions on both sides of the 128 bytes that are looked at.
TextData ==
    {[i \in 1..n |-> IF i = k THEN b ELSE 65] :
        n \in {0, 1, 2, 127, 128, 129, MaxTextLen},
        k \in {1, 2, 127, 128, 129, MaxTextLen},
        b \in TextBytes}

\* looks_like_text(data), called as the tests of lib.rs do.
LooksLikeText ==
    /\ Idle
    /\ \E data \in TextData :
        /\ op' = "looks_like_text"
        /\ args' = <<data>>
        /\ ret' = <<looks_like_text(data)>>
    /\ UNCHANGED <<fs, clock>>
    /\ UNCHANGED db_vars

TextInit == Created(<<>>)

TextNext ==
    \/ LooksLikeText
    \/ Consume

SpecText == TextInit /\ [][TextNext]_vars

\* The ASCII control bytes: 0 to 31, and 127.
AsciiControl == 0..31 \cup {127}

\* C24: looks_like_text(data) is true exactly when none of the first 128
\* bytes of data is an ASCII control byte other than tab, LF, VT, FF or CR.
C24_Text ==
    op = "looks_like_text" =>
        (ret[1] <=>
            \A i \in 1..Len(args[1]) :
                i <= 128 => args[1][i] \notin AsciiControl \ {9, 10, 11, 12, 13})

\* What a call of get_mime_type_for_data does: it panics, or it returns.
Sniff(entries, data) ==
    IF get_mime_type_for_data_panics(entries, data)
    THEN [panics |-> TRUE, value |-> None]
    ELSE [panics |-> FALSE, value |-> get_mime_type_for_data(entries, data)]

\* The first n bytes of the data, all of it when it is shorter.
Prefix(data, n) == SubSeq(data, 1, Min({n, Len(data)}))

\* C27: for a database whose max_extents is not 0 and data that is not
\* empty, content sniffing does the same on the data and on its first
\* max_extents bytes, which is what a new builder keeps of the data: the same
\* (mime, priority), or none, or the same panic.
C27_Truncation ==
    (op = "builder" /\ Len(args) = 1 /\ args[1] # <<>> /\ max_extents(magic) > 0) =>
        /\ Sniff(magic, args[1]) = Sniff(magic, Prefix(args[1], max_extents(magic)))
        /\ Sniff(magic, args[1]) = Sniff(magic, ret[1].data)

\* The builder kept the first max_extents bytes of longer data that an entry
\* of two rules matches, the second rule on the last byte it may look at.
C27_Witness ==
    /\ op = "builder"
    /\ Len(args) = 1
    /\ max_extents(magic) = 3
    /\ Len(args[1]) = 4
    /\ ret[1].data = SubSeq(args[1], 1, 3)
    /\ Len(magic) = 1
    /\ magic[1].rules = <<MagicRule(0, 0, <<65>>, None, 1, 1), MagicRule(1, 1, <<66>>, None, 1, 1)>>
    /\ Sniff(magic, args[1]) = [panics |-> FALSE, value |-> Some(<<TEXT_PLAIN, 50>>)]

\* C28: after any sequence of data() calls on a builder, the builder holds
\* at most max_extents(magic) bytes.
C28_DataBound ==
    op = "builder" => Len(ret[1].data) <= max_extents(magic)

\* C29: every guess whose MIME type is application/octet-stream is flagged
\* uncertain.
C29_OctetStreamUncertain ==
    (op = "guess" /\ ret # StackOverflow) =>
        (ret[1].mime = APPLICATION_OCTET_STREAM => ret[1].uncertain)

====
